---------------------------- MODULE Spec2Model ----------------------------
(***************************************************************************)
(* A model of the path-data interpreter of svg2tikz.py: the regular        *)
(* expressions that tokenize a path's d attribute (pathRe, dimRe, intRe),  *)
(* TiKZMaker.path_chop, which interprets one instruction per call, and     *)
(* the loop of TiKZMaker.process_path that drives it.                      *)
(*                                                                         *)
(* Representation.                                                         *)
(*  - A Python string is a sequence of one-character strings; Python's     *)
(*    None is the value None below, which is no such sequence.             *)
(*  - A float is an integer number of hundredths (1.25 is 125).  Every     *)
(*    numeric literal of the inputs is a multiple of 0.25 of small         *)
(*    magnitude, so the program's doubles hold these values exactly and    *)
(*    sums of them are exact; -0.0 is identified with 0.0.                 *)
(*  - A coordinate written to the output ('%.1f' of round(f,decs)) is an   *)
(*    integer number of tenths; its unit suffix is always _unit for a      *)
(*    numeric argument and is left out.                                    *)
(*  - A line printed to self._output is a record [op, inc, pts].           *)
(***************************************************************************)
EXTENDS Integers, Sequences, FiniteSets, TLC

None == <<"None">>

(***************************************************************************)
(* Character classes of the regular expressions.                           *)
(***************************************************************************)
DigitChars == <<"0", "1", "2", "3", "4", "5", "6", "7", "8", "9">>

IsDigit(c) == \E n \in 1..10 : DigitChars[n] = c

DigitVal(c) == (CHOOSE n \in 1..10 : DigitChars[n] = c) - 1

\* \s of tailSpec
IsSpace(c) == c \in {" ", "\t", "\n", "\r"}

\* [, ] and [ ,] of pathRe and dimRe
IsSep(c) == c \in {",", " "}

\* [aAcCqQlLmMhHvV] of pathRe
SpecLetters == {"a", "A", "c", "C", "q", "Q", "l", "L", "m", "M", "h", "H", "v", "V"}

Upper(c) ==
    CASE c = "a" -> "A" [] c = "c" -> "C" [] c = "q" -> "Q" [] c = "l" -> "L"
      [] c = "m" -> "M" [] c = "h" -> "H" [] c = "v" -> "V" [] c = "z" -> "Z"
      [] c = "e" -> "E" [] c = "x" -> "X"
      [] OTHER -> c

RECURSIVE Pow10(_)
Pow10(n) == IF n = 0 THEN 1 ELSE 10 * Pow10(n - 1)

RECURSIVE NatOf(_)
\* the value of a string of decimal digits
NatOf(t) ==
    IF t = <<>> THEN 0
    ELSE 10 * NatOf(SubSeq(t, 1, Len(t) - 1)) + DigitVal(t[Len(t)])

RECURSIVE DigitsEnd(_, _)
\* \d* from position p: the position after the longest run of digits
DigitsEnd(s, p) ==
    IF p <= Len(s) /\ IsDigit(s[p]) THEN DigitsEnd(s, p + 1) ELSE p

RECURSIVE SpaceEnd(_, _)
\* \s* from position p
SpaceEnd(s, p) ==
    IF p <= Len(s) /\ IsSpace(s[p]) THEN SpaceEnd(s, p + 1) ELSE p

RECURSIVE SepEnd(_, _)
\* [ ,]* from position p
SepEnd(s, p) ==
    IF p <= Len(s) /\ IsSep(s[p]) THEN SepEnd(s, p + 1) ELSE p

(***************************************************************************)
(* floatSpec = (-?\d+(\.\d+)?([eE]-?\d+)?) matched at position p: the      *)
(* position after the match, 0 when there is none.  Every group is greedy; *)
(* what follows floatSpec in pathRe, dimRe is either optional or a         *)
(* separator, which no shorter match of floatSpec is followed by, so the   *)
(* greedy match is the one the regular expression engine settles on.       *)
(* Each step of the match is an operator of its own, given the positions   *)
(* found so far.                                                           *)
(***************************************************************************)
\* ([eE]-?\d+)? from p3, its digits sought from q1
ExpDigits(p3, q1, q2) == IF q2 > q1 THEN q2 ELSE p3

ExpEnd(s, p3) ==
    IF p3 <= Len(s) /\ s[p3] \in {"e", "E"}
    THEN IF p3 + 1 <= Len(s) /\ s[p3 + 1] = "-"
         THEN ExpDigits(p3, p3 + 2, DigitsEnd(s, p3 + 2))
         ELSE ExpDigits(p3, p3 + 1, DigitsEnd(s, p3 + 1))
    ELSE p3

\* (\.\d+)? from p2
FracDigits(p2, f2) == IF f2 > p2 + 1 THEN f2 ELSE p2

FracEnd(s, p2) ==
    IF p2 <= Len(s) /\ s[p2] = "." THEN FracDigits(p2, DigitsEnd(s, p2 + 1)) ELSE p2

\* \d+ from p1, then the optional groups
FloatDigits(s, p1, p2) == IF p2 = p1 THEN 0 ELSE ExpEnd(s, FracEnd(s, p2))

FloatEnd(s, p) ==
    IF p <= Len(s) /\ s[p] = "-"
    THEN FloatDigits(s, p + 1, DigitsEnd(s, p + 1))
    ELSE FloatDigits(s, p, DigitsEnd(s, p))

\* (-?\d+) of intRe matched at position p: the position after it, 0 for none
IntDigits(p1, p2) == IF p2 = p1 THEN 0 ELSE p2

IntEnd(s, p) ==
    IF p <= Len(s) /\ s[p] = "-"
    THEN IntDigits(p + 1, DigitsEnd(s, p + 1))
    ELSE IntDigits(p, DigitsEnd(s, p))

\* tailSpec = (\s+(\S.*))? matched at position p: its inner group, the rest
TailFrom(s, p, q) == IF q > p /\ q <= Len(s) THEN SubSeq(s, q, Len(s)) ELSE None

TailGroup(s, p) == TailFrom(s, p, SpaceEnd(s, p))

(***************************************************************************)
(* float(t) for a text t that floatSpec matched, in hundredths: the        *)
(* mantissa's digits, the number k of fraction digits, the exponent.       *)
(***************************************************************************)
floatScale(mant, pw) ==
    IF pw >= 0 THEN mant * Pow10(pw) ELSE mant \div Pow10(0 - pw)

\* the exponent of b, whose mantissa ends before position fe
floatExp(b, fe) ==
    IF fe > Len(b) THEN 0
    ELSE IF b[fe + 1] = "-" THEN 0 - NatOf(SubSeq(b, fe + 2, Len(b)))
    ELSE NatOf(SubSeq(b, fe + 1, Len(b)))

floatMant(b, ie, fe, k) ==
    floatScale(NatOf(SubSeq(b, 1, ie - 1)) * Pow10(k) + NatOf(SubSeq(b, ie + 1, fe - 1)),
               floatExp(b, fe) - k + 2)

floatFrac(b, ie, fe) == floatMant(b, ie, fe, IF fe > ie THEN fe - ie - 1 ELSE 0)

floatInt(b, ie) ==
    IF ie <= Len(b) /\ b[ie] = "."
    THEN floatFrac(b, ie, DigitsEnd(b, ie + 1))
    ELSE floatFrac(b, ie, ie)

floatAbs(b) == floatInt(b, DigitsEnd(b, 1))

float(t) == IF t[1] = "-" THEN 0 - floatAbs(Tail(t)) ELSE floatAbs(t)

\* int(t) for a text t that (-?\d+) matched
int(t) == IF t[1] = "-" THEN 0 - NatOf(Tail(t)) ELSE NatOf(t)

(***************************************************************************)
(* Output formatting: str2u and pt2str for numeric arguments.              *)
(***************************************************************************)
decimals == 1

\* Python's round() of the exactly held value n/d (d > 0) to an integer,
\* given the quotient q and the remainder r
RoundTie(q, r, d) ==
    IF 2 * r < d THEN q
    ELSE IF 2 * r > d THEN q + 1
    ELSE IF q % 2 = 0 THEN q ELSE q + 1

RoundHalfEven(n, d) == RoundTie(n \div d, n % d, d)

\* '%.1f' % round(f, decs) for f = num/den hundredths, in tenths
str2uDecs(num, den, step) == (RoundHalfEven(num, den * step) * step) \div 10

\* str2u(f) for the float f = num/den hundredths
str2uQ(num, den, rnd) ==
    IF rnd THEN str2uDecs(num, den, 100) ELSE str2uDecs(num, den, Pow10(2 - decimals))

str2u(f, rnd) == str2uQ(f, 1, rnd)

pt2str(x, y, rnd) == <<str2u(x, rnd), str2u(y, rnd)>>

\* one line printed to self._output by TiKZMaker.output or print
Line(op, inc, pts) == [op |-> op, inc |-> inc, pts |-> pts]

(***************************************************************************)
(* The regular expressions of path_chop and its helpers.                   *)
(***************************************************************************)
NoSpec == "None"

NoMatch == [ok |-> FALSE, g1 |-> NoSpec, g2 |-> None, g6 |-> None, g10 |-> None]

\* pathGroups with the tail group holding the whole text, as if nothing had
\* been consumed
pathGroups_whole(d, p0, e1, f2, e2, s9) ==
    [ok  |-> TRUE,
     g1  |-> IF p0 = 3 THEN d[1] ELSE NoSpec,
     g2  |-> SubSeq(d, p0, e1 - 1),
     g6  |-> IF f2 > 0 THEN SubSeq(d, e1 + 1, f2 - 1) ELSE None,
     g10 |-> d]

\* the groups of a match of pathRe: floatSpec from p0 to e1, ([, ]floatSpec)?
\* to f2 (0: not taken), ([ ,]+(.*))? from e2 with its separators up to s9
pathGroups(d, p0, e1, f2, e2, s9) ==
    [ok  |-> TRUE,
     g1  |-> IF p0 = 3 THEN d[1] ELSE NoSpec,
     g2  |-> SubSeq(d, p0, e1 - 1),
     g6  |-> IF f2 > 0 THEN SubSeq(d, e1 + 1, f2 - 1) ELSE None,
     g10 |-> IF s9 > e2 THEN SubSeq(d, s9, Len(d)) ELSE None]

pathSecond(d, p0, e1, f2) ==
    IF f2 > 0 THEN pathGroups(d, p0, e1, f2, f2, SepEnd(d, f2))
    ELSE pathGroups(d, p0, e1, f2, e1, SepEnd(d, e1))

pathFirst(d, p0, e1) ==
    IF e1 = 0 THEN NoMatch
    ELSE IF e1 <= Len(d) /\ IsSep(d[e1]) THEN pathSecond(d, p0, e1, FloatEnd(d, e1 + 1))
    ELSE pathSecond(d, p0, e1, 0)

\* pathRe.match(d): ok, and groups 1 (its letter), 2, 6 and 10
pathRe(d) ==
    IF Len(d) >= 2 /\ d[1] \in SpecLetters /\ d[2] = " "
    THEN pathFirst(d, 3, FloatEnd(d, 3))
    ELSE pathFirst(d, 1, FloatEnd(d, 1))

NoChop == [exc |-> "none", rest |-> None, x |-> 0, y |-> 0]

dimGroups(s, e1, e2) ==
    IF e2 = 0 THEN [NoChop EXCEPT !.exc = "AttributeError"]
    ELSE [exc  |-> "none",
          rest |-> TailGroup(s, e2),
          x    |-> float(SubSeq(s, 1, e1 - 1)),
          y    |-> float(SubSeq(s, e1 + 1, e2 - 1))]

dimFirst(s, e1) ==
    IF e1 > 0 /\ e1 <= Len(s) /\ IsSep(s[e1]) THEN dimGroups(s, e1, FloatEnd(s, e1 + 1))
    ELSE dimGroups(s, e1, 0)

\* dimChop(s): the exception it raises (re.match(None): TypeError; no match,
\* m.groups(): AttributeError), else the rest (group 8) and x, y
dimChop(s) ==
    IF s = None THEN [NoChop EXCEPT !.exc = "TypeError"] ELSE dimFirst(s, FloatEnd(s, 1))

intGroups(s, e1) ==
    IF e1 = 0 THEN [NoChop EXCEPT !.exc = "AttributeError"]
    ELSE [exc  |-> "none",
          rest |-> TailGroup(s, e1),
          x    |-> int(SubSeq(s, 1, e1 - 1)),
          y    |-> 0]

\* intChop(s): the exception it raises, else the rest (group 3) and the int (x)
intChop(s) ==
    IF s = None THEN [NoChop EXCEPT !.exc = "TypeError"] ELSE intGroups(s, IntEnd(s, 1))

(***************************************************************************)
(* path_chop.  Its argument a holds the call's arguments d, first,         *)
(* last_spec, incremental and the maker's fields lastx, lasty, startx,     *)
(* starty (_lastx, ... in the source) and round (_round); style is the     *)
(* empty string.  The result holds what the call returns (rest, first,     *)
(* spec, incremental), the fields as the call leaves them, the lines it    *)
(* printed to self._output, and in exc the exception that left it ("none"  *)
(* for a normal return).  Messages to sys.stderr (self.log, the ERROR      *)
(* print) are no part of the output and are left out.                      *)
(***************************************************************************)
Ret(rest, spec, incremental, lx, ly, sx, sy, out) ==
    [exc |-> "none", rest |-> rest, first |-> FALSE, spec |-> spec,
     incremental |-> incremental,
     lastx |-> lx, lasty |-> ly, startx |-> sx, starty |-> sy, out |-> out]

\* an exception leaves path_chop: every raise precedes the branch's updates
\* of the fields and its prints
Raise(a, exc) ==
    [exc |-> exc, rest |-> None, first |-> a.first, spec |-> a.last_spec,
     incremental |-> a.incremental,
     lastx |-> a.lastx, lasty |-> a.lasty, startx |-> a.startx, starty |-> a.starty,
     out |-> <<>>]

\* chop_Z as it would be without line 432 (_lasty is not reset); C2 tells
\* it from chop_Z
chop_Z_keeps_y(a) ==
    Ret(None, a.last_spec, a.incremental, a.startx, a.lasty, a.startx, a.starty,
        <<Line("-- cycle", "", <<>>)>>)

\* lines 430-434
chop_Z(a) ==
    Ret(None, a.last_spec, a.incremental, a.startx, a.starty, a.startx, a.starty,
        <<Line("-- cycle", "", <<>>)>>)

\* lines 437-439
chop_nomatch(a) ==
    Ret(None, a.last_spec, a.incremental, a.lastx, a.lasty, a.startx, a.starty, <<>>)

\* lines 468-475
chop_L(a, rest, spec, incr, inc, x1, y1) ==
    IF spec = "L"
    THEN Ret(rest, spec, incr, x1, y1, a.startx, a.starty,
             <<Line("--", inc, <<pt2str(x1, y1, a.round)>>)>>)
    ELSE Ret(rest, spec, incr, a.lastx + x1, a.lasty + y1, a.startx, a.starty,
             <<Line("--", inc, <<pt2str(x1, y1, a.round)>>)>>)

\* lines 476-484
chop_hv(a, rest, spec, incr, inc, x) ==
    IF spec = "h"
    THEN Ret(rest, spec, incr, a.lastx + x, a.lasty, a.startx, a.starty,
             <<Line("--", inc, <<pt2str(x, 0, a.round)>>)>>)
    ELSE Ret(rest, spec, incr, a.lastx, a.lasty + x, a.startx, a.starty,
             <<Line("--", inc, <<pt2str(0, x, a.round)>>)>>)

\* chop_HV as it would be with the other coordinate taken as 0 instead of
\* kept; C6 tells it from chop_HV
chop_HV_zero(a, rest, spec, incr, inc, dim) ==
    IF spec = "H"
    THEN Ret(rest, spec, incr, dim, 0, a.startx, a.starty,
             <<Line("--", inc, <<pt2str(dim, 0, a.round)>>)>>)
    ELSE Ret(rest, spec, incr, 0, dim, a.startx, a.starty,
             <<Line("--", inc, <<pt2str(0, dim, a.round)>>)>>)

\* lines 485-493
chop_HV(a, rest, spec, incr, inc, dim) ==
    IF spec = "H"
    THEN Ret(rest, spec, incr, dim, a.lasty, a.startx, a.starty,
             <<Line("--", inc, <<pt2str(dim, a.lasty, a.round)>>)>>)
    ELSE Ret(rest, spec, incr, a.lastx, dim, a.startx, a.starty,
             <<Line("--", inc, <<pt2str(a.lastx, dim, a.round)>>)>>)

\* lines 494-507, the moved-to point being (nx, ny)
chop_M_at(a, rest, spec, incr, inc, x1, y1, nx, ny) ==
    Ret(rest, spec, incr, nx, ny, nx, ny,
        (IF ~a.first THEN <<Line(";", "", <<>>)>> ELSE <<>>)
        \o <<Line("\\draw", inc, <<pt2str(x1, y1, a.round)>>)>>)

\* chop_M as it would be with every moveto taken as absolute; C7 tells it
\* from chop_M
chop_M_absolute(a, rest, spec, incr, inc, x1, y1) ==
    chop_M_at(a, rest, spec, incr, inc, x1, y1, x1, y1)

chop_M(a, rest, spec, incr, inc, x1, y1) ==
    IF spec = "M" \/ a.first
    THEN chop_M_at(a, rest, spec, incr, inc, x1, y1, x1, y1)
    ELSE chop_M_at(a, rest, spec, incr, inc, x1, y1, a.lastx + x1, a.lasty + y1)

\* chop_C_out with the second control point of c written as P2, the "quick
\* hack" the comment at lines 511-516 speaks of
chop_C_out_hack(a, spec, incr, inc, x1, y1, c2, c3) ==
    Ret(c3.rest, spec, incr,
        IF spec = "C" THEN c3.x ELSE a.lastx + c3.x,
        IF spec = "C" THEN c3.y ELSE a.lasty + c3.y,
        a.startx, a.starty,
        (IF incr THEN <<>> ELSE <<Line("%%%% Warning: check controls", "", <<>>)>>)
        \o <<Line(".. controls", inc,
                  <<pt2str(x1, y1, a.round), pt2str(c2.x, c2.y, a.round),
                    pt2str(c3.x, c3.y, a.round)>>)>>)

\* lines 517-528, after both calls of dimChop
chop_C_out(a, spec, incr, inc, x1, y1, c2, c3) ==
    Ret(c3.rest, spec, incr,
        IF spec = "C" THEN c3.x ELSE a.lastx + c3.x,
        IF spec = "C" THEN c3.y ELSE a.lasty + c3.y,
        a.startx, a.starty,
        (IF incr THEN <<>> ELSE <<Line("%%%% Warning: check controls", "", <<>>)>>)
        \o <<Line(".. controls", inc,
                  <<pt2str(x1, y1, a.round),
                    IF incr THEN pt2str(c2.x - c3.x, c2.y - c3.y, a.round)
                    ELSE pt2str(c2.x, c2.y, a.round),
                    pt2str(c3.x, c3.y, a.round)>>)>>)

\* line 510
chop_C3(a, spec, incr, inc, x1, y1, c2, c3) ==
    IF c3.exc # "none" THEN Raise(a, c3.exc)
    ELSE chop_C_out(a, spec, incr, inc, x1, y1, c2, c3)

\* lines 508-509
chop_C(a, spec, incr, inc, x1, y1, c2) ==
    IF c2.exc # "none" THEN Raise(a, c2.exc)
    ELSE chop_C3(a, spec, incr, inc, x1, y1, c2, dimChop(c2.rest))

\* chop_Q with the second control point of q taken from the start point,
\* (2*P1+P2)/3, as the comment at lines 548-549 has it before its correction
chop_Q_from_start(a, spec, incr, inc, x1, y1, c2) ==
    IF c2.exc # "none" THEN Raise(a, c2.exc)
    ELSE IF spec = "Q"
    THEN Ret(c2.rest, spec, incr, c2.x, c2.y, a.startx, a.starty,
             <<Line("%% << %% This should be a quadratic Bezier --", "",
                    <<pt2str(x1, y1, a.round), pt2str(c2.x, c2.y, a.round)>>)>>)
    ELSE Ret(c2.rest, spec, incr, a.lastx + c2.x, a.lasty + c2.y, a.startx, a.starty,
             <<Line(".. controls", inc,
                    <<<<str2uQ(2 * x1, 3, a.round), str2uQ(2 * y1, 3, a.round)>>,
                      <<str2uQ(2 * x1 + c2.x, 3, a.round),
                        str2uQ(2 * y1 + c2.y, 3, a.round)>>,
                      pt2str(c2.x, c2.y, a.round)>>)>>)

\* chop_Q with the line of Q drawn to the control point and the end point
\* named in the comment
chop_Q_to_control(a, spec, incr, inc, x1, y1, c2) ==
    IF c2.exc # "none" THEN Raise(a, c2.exc)
    ELSE IF spec = "Q"
    THEN Ret(c2.rest, spec, incr, c2.x, c2.y, a.startx, a.starty,
             <<Line("%% << %% This should be a quadratic Bezier --", "",
                    <<pt2str(c2.x, c2.y, a.round), pt2str(x1, y1, a.round)>>)>>)
    ELSE Ret(c2.rest, spec, incr, a.lastx + c2.x, a.lasty + c2.y, a.startx, a.starty,
             <<Line(".. controls", inc,
                    <<<<str2uQ(2 * x1, 3, a.round), str2uQ(2 * y1, 3, a.round)>>,
                      <<str2uQ(2 * (x1 - c2.x), 3, a.round),
                        str2uQ(2 * (y1 - c2.y), 3, a.round)>>,
                      pt2str(c2.x, c2.y, a.round)>>)>>)

\* lines 529-553
chop_Q(a, spec, incr, inc, x1, y1, c2) ==
    IF c2.exc # "none" THEN Raise(a, c2.exc)
    ELSE IF spec = "Q"
    THEN Ret(c2.rest, spec, incr, c2.x, c2.y, a.startx, a.starty,
             <<Line("%% << %% This should be a quadratic Bezier --", "",
                    <<pt2str(x1, y1, a.round), pt2str(c2.x, c2.y, a.round)>>)>>)
    ELSE Ret(c2.rest, spec, incr, a.lastx + c2.x, a.lasty + c2.y, a.startx, a.starty,
             <<Line(".. controls", inc,
                    <<<<str2uQ(2 * x1, 3, a.round), str2uQ(2 * y1, 3, a.round)>>,
                      <<str2uQ(2 * (x1 - c2.x), 3, a.round),
                        str2uQ(2 * (y1 - c2.y), 3, a.round)>>,
                      pt2str(c2.x, c2.y, a.round)>>)>>)

\* lines 561-578.  Inside the try, svg_ellipse_arc either raises or returns,
\* and then self.log('arcs: ',arcs,verbose=2) raises TypeError (two values
\* for verbose) before path_arc prints anything; the handler formats its
\* message with the undefined name _xrot, and that NameError leaves path_chop.
chop_A_arc(a, c2) ==
    IF c2.exc # "none" THEN Raise(a, c2.exc) ELSE Raise(a, "NameError")

\* line 560
chop_A_swap(a, swap) ==
    IF swap.exc # "none" THEN Raise(a, swap.exc) ELSE chop_A_arc(a, dimChop(swap.rest))

\* line 559
chop_A_large(a, large) ==
    IF large.exc # "none" THEN Raise(a, large.exc)
    ELSE chop_A_swap(a, intChop(large.rest))

\* lines 554-558
chop_A(a, xrot) ==
    IF xrot.exc # "none" THEN Raise(a, xrot.exc)
    ELSE chop_A_large(a, intChop(xrot.rest))

\* lines 463-466, and the branches of lines 468-580
chop_branch(a, m, spec, incr, inc) ==
    IF spec \in {"h", "v"} THEN chop_hv(a, m.g10, spec, incr, inc, float(m.g2))
    ELSE IF spec \in {"H", "V"} THEN chop_HV(a, m.g10, spec, incr, inc, float(m.g2))
    ELSE IF m.g6 = None THEN Raise(a, "TypeError")
    ELSE IF spec \in {"l", "L"} \/ spec = NoSpec
    THEN chop_L(a, m.g10, spec, incr, inc, float(m.g2), float(m.g6))
    ELSE IF spec \in {"M", "m"}
    THEN chop_M(a, m.g10, spec, incr, inc, float(m.g2), float(m.g6))
    ELSE IF spec \in {"c", "C"}
    THEN chop_C(a, spec, incr, inc, float(m.g2), float(m.g6), dimChop(m.g10))
    ELSE IF spec \in {"Q", "q"}
    THEN chop_Q(a, spec, incr, inc, float(m.g2), float(m.g6), dimChop(m.g10))
    ELSE IF spec \in {"A", "a"} THEN chop_A(a, intChop(m.g10))
    ELSE Ret(m.g10, spec, incr, a.lastx, a.lasty, a.startx, a.starty, <<>>)

\* line 454
chop_mode(a, m, spec, incr) ==
    chop_branch(a, m, spec, incr, IF incr /\ ~a.first THEN "++" ELSE "")

\* lines 451-453
chop_spec(a, m, spec) ==
    chop_mode(a, m, spec, IF spec # NoSpec THEN spec # Upper(spec) ELSE a.incremental)

\* implicit_spec as it would be with every bare pair taken as a lineto;
\* C4 tells it from implicit_spec
implicit_spec_lineto(g1, last_spec) ==
    IF g1 = NoSpec /\ last_spec # NoSpec
    THEN (IF last_spec = Upper(last_spec) THEN "L" ELSE "l")
    ELSE g1

\* implicit_spec as it would be without lines 446-447 (a bare pair repeats
\* a moveto too); C5 tells it from implicit_spec
implicit_spec_repeat(g1, last_spec) ==
    IF g1 = NoSpec /\ last_spec # NoSpec THEN last_spec ELSE g1

\* lines 445-449: the command of an instruction whose letter (group 1) is g1
implicit_spec(g1, last_spec) ==
    IF g1 = NoSpec /\ last_spec # NoSpec
    THEN IF Upper(last_spec) = "M"
         THEN (IF last_spec = "M" THEN "L" ELSE "l")
         ELSE last_spec
    ELSE g1

\* lines 435-449
chop_match(a, m) ==
    IF ~m.ok THEN chop_nomatch(a)
    ELSE chop_spec(a, m, implicit_spec(m.g1, a.last_spec))

path_chop(a) ==
    IF Upper(a.d[1]) = "Z" THEN chop_Z(a) ELSE chop_match(a, pathRe(a.d))

(***************************************************************************)
(* The documents.  A path element is written as a list of instruction      *)
(* texts; its d attribute is their characters joined by single spaces.     *)
(* A path of the main specification opens with a moveto (Heads) followed   *)
(* by up to MaxInstr texts of Frags, which hold every command letter, a    *)
(* bare coordinate pair, and truncated and unsupported instructions.       *)
(***************************************************************************)
MaxInstr == 3

MaxElems == 2

MaxInstr2 == 1

Heads == {"M 0,0", "m 1,2"}

Frags == {"L 1,1", "l 0.25,-1.5", "2,2", "H 5", "h 2",
          "V 5", "v -1", "Z", "z", "M 3,1",
          "m 1,1", "C 1,1 2,2 3,3", "c 1,1 2,1 3,0", "Q 1,1 2,0", "q 1,1 2,0",
          "A 1,1 0 0 1 2,0", "L 1,", "L", "X 1,1", "C 1,1 2,2"}

Chars(f) ==
    CASE
         f = "M 0,0" -> <<"M", " ", "0", ",", "0">>
      [] f = "m 1,2" -> <<"m", " ", "1", ",", "2">>
      [] f = "L 1,1" -> <<"L", " ", "1", ",", "1">>
      [] f = "l 0.25,-1.5" -> <<"l", " ", "0", ".", "2", "5", ",", "-", "1", ".", "5">>
      [] f = "2,2" -> <<"2", ",", "2">>
      [] f = "H 5" -> <<"H", " ", "5">>
      [] f = "h 2" -> <<"h", " ", "2">>
      [] f = "V 5" -> <<"V", " ", "5">>
      [] f = "v -1" -> <<"v", " ", "-", "1">>
      [] f = "Z" -> <<"Z">>
      [] f = "z" -> <<"z">>
      [] f = "M 3,1" -> <<"M", " ", "3", ",", "1">>
      [] f = "m 1,1" -> <<"m", " ", "1", ",", "1">>
      [] f = "C 1,1 2,2 3,3" -> <<"C", " ", "1", ",", "1", " ", "2", ",", "2", " ", "3", ",", "3">>
      [] f = "c 1,1 2,1 3,0" -> <<"c", " ", "1", ",", "1", " ", "2", ",", "1", " ", "3", ",", "0">>
      [] f = "Q 1,1 2,0" -> <<"Q", " ", "1", ",", "1", " ", "2", ",", "0">>
      [] f = "q 1,1 2,0" -> <<"q", " ", "1", ",", "1", " ", "2", ",", "0">>
      [] f = "A 1,1 0 0 1 2,0" -> <<"A", " ", "1", ",", "1", " ", "0", " ", "0", " ", "1", " ", "2", ",", "0">>
      [] f = "L 1," -> <<"L", " ", "1", ",">>
      [] f = "L" -> <<"L">>
      [] f = "X 1,1" -> <<"X", " ", "1", ",", "1">>
      [] f = "C 1,1 2,2" -> <<"C", " ", "1", ",", "1", " ", "2", ",", "2">>
      [] f = "M0,0" -> <<"M", "0", ",", "0">>
      [] f = "L1,1" -> <<"L", "1", ",", "1">>
      [] f = "1.2-3.4" -> <<"1", ".", "2", "-", "3", ".", "4">>
      [] f = "1,2 3,1 4,3" -> <<"1", ",", "2", " ", "3", ",", "1", " ", "4", ",", "3">>
      [] f = "q 3,-1.5 1.5,3" -> <<"q", " ", "3", ",", "-", "1", ".", "5", " ", "1", ".", "5", ",", "3">>
      [] f = "Q 3,-1.5 1.5,3" -> <<"Q", " ", "3", ",", "-", "1", ".", "5", " ", "1", ".", "5", ",", "3">>
      [] f = "A 5,5 0 0 0 6,0" -> <<"A", " ", "5", ",", "5", " ", "0", " ", "0", " ", "0", " ", "6", ",", "0">>
      [] f = "A 5,5 0 0 1 6,0" -> <<"A", " ", "5", ",", "5", " ", "0", " ", "0", " ", "1", " ", "6", ",", "0">>
      [] f = "A 5,5 0 1 0 6,0" -> <<"A", " ", "5", ",", "5", " ", "0", " ", "1", " ", "0", " ", "6", ",", "0">>
      [] f = "A 5,5 0 1 1 6,0" -> <<"A", " ", "5", ",", "5", " ", "0", " ", "1", " ", "1", " ", "6", ",", "0">>
      [] f = "a 5,5 0 0 1 6,0" -> <<"a", " ", "5", ",", "5", " ", "0", " ", "0", " ", "1", " ", "6", ",", "0">>
      [] f = "A 1,1 0 0 1 6,0" -> <<"A", " ", "1", ",", "1", " ", "0", " ", "0", " ", "1", " ", "6", ",", "0">>

RECURSIVE AttrD(_)
\* elem.attrib['d'] of the element written as the texts e
AttrD(e) ==
    IF e = <<>> THEN <<>>
    ELSE IF Len(e) = 1 THEN Chars(e[1])
    ELSE Chars(e[1]) \o <<" ">> \o AttrD(Tail(e))

SeqsUpTo(S, k) == UNION {[1..j -> S] : j \in 0..k}

\* the path elements of the main specification
Elems == {<<h>> \o t : h \in Heads, t \in SeqsUpTo(Frags, MaxInstr)}

\* the path elements of the specification of several elements: any text
\* alone, or a moveto and up to MaxInstr2 texts
Elems2 == {<<t>> : t \in Frags} \cup
          {<<h>> \o t : h \in Heads, t \in SeqsUpTo(Frags, MaxInstr2)}

(***************************************************************************)
(* The arc solver: circle_center, svg_circle_arc, svg_ellipse_arc.  Its    *)
(* numbers are rationals [n, d] in lowest terms, d > 0, the arithmetic of  *)
(* the code carried out exactly; sqrt is the exact root, taken only of     *)
(* squares of rationals (see ArcInputs).  An angle, the degrees of an      *)
(* atan2, is written as the direction it points to: the pair <<x, y>> of   *)
(* coprime integers on its ray.                                            *)
(***************************************************************************)
Abs(k) == IF k < 0 THEN 0 - k ELSE k

RECURSIVE GCD(_, _)
GCD(a, b) == IF b = 0 THEN a ELSE GCD(b, a % b)

RatOf(n, d, g) ==
    IF d < 0 THEN [n |-> (0 - n) \div g, d |-> (0 - d) \div g]
    ELSE [n |-> n \div g, d |-> d \div g]

\* n / d, d # 0
Rat(n, d) == RatOf(n, d, GCD(Abs(n), Abs(d)))

RAdd(a, b) == Rat(a.n * b.d + b.n * a.d, a.d * b.d)

RSub(a, b) == Rat(a.n * b.d - b.n * a.d, a.d * b.d)

RMul(a, b) == Rat(a.n * b.n, a.d * b.d)

\* a / b, b # 0
RDiv(a, b) == Rat(a.n * b.d, a.d * b.n)

RHalf(a) == Rat(a.n, 2 * a.d)

RECURSIVE ISqrtFrom(_, _)
ISqrtFrom(k, s) == IF s * s >= k THEN s ELSE ISqrtFrom(k, s + 1)

ISqrt(k) == ISqrtFrom(k, 0)

IsSquare(q) == q.n >= 0 /\ ISqrt(q.n) * ISqrt(q.n) = q.n /\ ISqrt(q.d) * ISqrt(q.d) = q.d

\* math.sqrt of the square q
RSqrt(q) == [n |-> ISqrt(q.n), d |-> ISqrt(q.d)]

DirOf(a, b, g) == <<a \div g, b \div g>>

\* math.degrees(math.atan2(y, x)); atan2(0, 0) is 0
atan2deg(y, x) ==
    IF x.n = 0 /\ y.n = 0 THEN <<1, 0>>
    ELSE DirOf(x.n * y.d, y.n * x.d, GCD(Abs(x.n * y.d), Abs(y.n * x.d)))

\* what a function of the solver returns, or the exception it raises
Solved(res) == [exc |-> "none", res |-> res]

Failed(exc) == [exc |-> exc, res |-> <<>>]

\* lines 170-174
cc_points(x1, y1, l) ==
    Solved(<< <<RSub(RHalf(x1), RMul(l, y1)), RAdd(RHalf(y1), RMul(l, x1))>>,
              <<RAdd(RHalf(x1), RMul(l, y1)), RSub(RHalf(y1), RMul(l, x1))>> >>)

\* line 169: math.sqrt of a negative number raises ValueError
cc_sqrt(x1, y1, q) ==
    IF q.n < 0 THEN Failed("ValueError") ELSE cc_points(x1, y1, RSqrt(q))

\* line 169: the division l1/l2
cc_div(x1, y1, l1, l2) ==
    IF l2.n = 0 THEN Failed("ZeroDivisionError") ELSE cc_sqrt(x1, y1, RDiv(l1, l2))

\* lines 155-174
circle_center(x1, y1, r) ==
    cc_div(x1, y1,
           RSub(RSub(RMul(r, r), RMul(RHalf(x1), RHalf(x1))),
                RMul(RHalf(y1), RHalf(y1))),
           RAdd(RMul(x1, x1), RMul(y1, y1)))

\* lines 180-182: the arc of the centre pt
circle_arc_of(pt, x1, y1, r) ==
    <<pt[1], pt[2],
      atan2deg(RSub(Rat(0, 1), y1), RSub(Rat(0, 1), x1)),
      atan2deg(RSub(y1, pt[2]), RSub(x1, pt[1])),
      r>>

circle_arcs(cc, x1, y1, r) ==
    IF cc.exc # "none" THEN cc
    ELSE Solved(<<circle_arc_of(cc.res[1], x1, y1, r),
                  circle_arc_of(cc.res[2], x1, y1, r)>>)

\* lines 176-184
svg_circle_arc(x1, y1, r) == circle_arcs(circle_center(x1, y1, r), x1, y1, r)

\* ellipse_arc_of as it would be with the centre's x left as it is for the
\* circle, not divided by mu; C15 tells it from ellipse_arc_of
ellipse_arc_of_unscaled(arc, mu, rx, ry) ==
    <<arc[1], arc[2], arc[3], arc[4], rx, ry>>

\* line 190: the arc of the ellipse for the arc of the circle
ellipse_arc_of(arc, mu, rx, ry) ==
    <<RDiv(arc[1], mu), arc[2], arc[3], arc[4], rx, ry>>

ellipse_arcs(ca, mu, rx, ry) ==
    IF ca.exc # "none" THEN ca
    ELSE IF mu.n = 0 THEN Failed("ZeroDivisionError")
    ELSE Solved(<<ellipse_arc_of(ca.res[1], mu, rx, ry),
                  ellipse_arc_of(ca.res[2], mu, rx, ry)>>)

ellipse_mu(x1, y1, rx, ry, mu) ==
    ellipse_arcs(svg_circle_arc(RMul(x1, mu), y1, ry), mu, rx, ry)

\* lines 186-192
svg_ellipse_arc(x1, y1, rx, ry) ==
    IF rx.n = 0 THEN Failed("ZeroDivisionError")
    ELSE ellipse_mu(x1, y1, rx, ry, RDiv(ry, rx))

(***************************************************************************)
(* State.  The maker's fields lastx, lasty, startx, starty, round and its  *)
(* output; the locals d, f, spec, i of process_path; elem, the element     *)
(* process_path was called with; pc, where the program is ("idle": no      *)
(* element processed yet, "loop": in the while loop of process_path,       *)
(* "done": process_path returned, "raised": an exception is propagating,   *)
(* which nothing between path_chop and main catches); exc, that            *)
(* exception; n, the path elements processed so far of the npaths the      *)
(* document holds.  out holds the lines printed to self._output since      *)
(* process_path was entered.  other holds the same locals, output and     *)
(* count of a second call of process_path on the same maker while the      *)
(* first call is the one running (see switch).  arcin and arcs are the     *)
(* operands and the result of a call of svg_ellipse_arc (see solve_arc).   *)
(***************************************************************************)
VARIABLES lastx, lasty, startx, starty, round, out,
          d, f, spec, i, elem, pc, exc, n, npaths, other, arcin, arcs

vars == <<lastx, lasty, startx, starty, round, out,
          d, f, spec, i, elem, pc, exc, n, npaths, other, arcin, arcs>>

\* the locals, the output and the count of the call of process_path that is
\* running
Ctx ==
    [d |-> d, f |-> f, spec |-> spec, i |-> i, elem |-> elem, pc |-> pc,
     exc |-> exc, out |-> out, n |-> n]

\* those of a call that has not started
NoCtx ==
    [d |-> None, f |-> TRUE, spec |-> NoSpec, i |-> FALSE, elem |-> <<>>,
     pc |-> "idle", exc |-> "none", out |-> <<>>, n |-> 0]

\* no call of svg_ellipse_arc
NoArc == [x1 |-> Rat(0, 1), y1 |-> Rat(0, 1), rx |-> Rat(0, 1), ry |-> Rat(0, 1)]

NoArcs == [exc |-> "idle", res |-> <<>>]

\* class attributes (lines 37-41) and __init__; round as given to __init__
InitMaker ==
    /\ lastx = 0 /\ lasty = 0 /\ startx = 0 /\ starty = 0
    /\ round \in BOOLEAN
    /\ out = <<>>
    /\ d = None /\ f = TRUE /\ spec = NoSpec /\ i = FALSE
    /\ elem = <<>> /\ pc = "idle" /\ exc = "none" /\ n = 0
    /\ other = NoCtx
    /\ arcin = NoArc /\ arcs = NoArcs

Init == InitMaker /\ npaths = 1

Init2 == InitMaker /\ npaths = MaxElems

\* process_path(elem) up to its while loop (lines 637-671), for an element
\* of E with no id, no style and no sodipodi:type; process_g calls it for the
\* next path child when no call is under way, none raised, and the document
\* has a further path element
process_path(E) ==
    /\ pc \in {"idle", "done"} /\ n < npaths
    /\ elem' \in E
    /\ d' = AttrD(elem')
    /\ f' = TRUE
    /\ i' = FALSE
    /\ spec' = NoSpec
    /\ out' = <<Line("%% path spec", "", <<>>)>>
    /\ pc' = "loop"
    /\ UNCHANGED <<lastx, lasty, startx, starty, round, exc, n, npaths,
                   other, arcin, arcs>>

\* the arguments and the fields the next call of path_chop is given
Args ==
    [d |-> d, first |-> f, last_spec |-> spec, incremental |-> i,
     lastx |-> lastx, lasty |-> lasty, startx |-> startx, starty |-> starty,
     round |-> round]

\* line 674 with the result r of path_chop
Assign(r) ==
    /\ lastx' = r.lastx
    /\ lasty' = r.lasty
    /\ startx' = r.startx
    /\ starty' = r.starty
    /\ out' = out \o r.out
    /\ exc' = r.exc
    /\ d' = IF r.exc = "none" THEN r.rest ELSE d
    /\ f' = r.first
    /\ spec' = r.spec
    /\ i' = r.incremental
    /\ pc' = IF r.exc = "none" THEN "loop" ELSE "raised"

\* one iteration of the while loop (lines 672-674): a call of path_chop
chop_step ==
    /\ pc = "loop"
    /\ d # None /\ Len(d) > 0
    /\ Assign(path_chop(Args))
    /\ UNCHANGED <<round, elem, n, npaths, other, arcin, arcs>>

\* the loop's exit and the closing print (lines 672, 676)
end_path ==
    /\ pc = "loop"
    /\ d = None \/ Len(d) = 0
    /\ out' = Append(out, Line(";", "", <<>>))
    /\ pc' = "done"
    /\ n' = n + 1
    /\ UNCHANGED <<lastx, lasty, startx, starty, round, d, f, spec, i,
                   elem, exc, npaths, other, arcin, arcs>>

Next ==
    \/ process_path(Elems)
    \/ chop_step
    \/ end_path

Spec == Init /\ [][Next]_vars

Next2 ==
    \/ process_path(Elems2)
    \/ chop_step
    \/ end_path

Spec2 == Init2 /\ [][Next2]_vars

\* The operands the arc solver is called with: chords and radii on a grid
\* of quarters, those left out for which math.sqrt would be taken of a
\* number that is not the square of a rational.
ArcXs == {-24, 0, 12, 24, 32, 48}

ArcYs == {-32, 0, 16, 24, 32}

ArcRs == {0, 4, 10, 20, 25, 40, 50}

ArcGrid ==
    {[x1 |-> Rat(x, 4), y1 |-> Rat(y, 4), rx |-> Rat(a, 4), ry |-> Rat(b, 4)] :
        x \in ArcXs, y \in ArcYs, a \in ArcRs, b \in ArcRs}

SqrtExact(l1, l2) == l2.n = 0 \/ RDiv(l1, l2).n < 0 \/ IsSquare(RDiv(l1, l2))

CircleExact(x1, y1, r) ==
    SqrtExact(RSub(RSub(RMul(r, r), RMul(RHalf(x1), RHalf(x1))),
                   RMul(RHalf(y1), RHalf(y1))),
              RAdd(RMul(x1, x1), RMul(y1, y1)))

ArcExact(in) ==
    in.rx.n = 0 \/ CircleExact(RMul(in.x1, RDiv(in.ry, in.rx)), in.y1, in.ry)

ArcInputs == {in \in ArcGrid : ArcExact(in)}

\* a call svg_ellipse_arc(x1, y1, rx, ry), as in line 564
solve_arc ==
    /\ arcs = NoArcs
    /\ arcin' \in ArcInputs
    /\ arcs' = svg_ellipse_arc(arcin'.x1, arcin'.y1, arcin'.rx, arcin'.ry)
    /\ UNCHANGED <<lastx, lasty, startx, starty, round, out,
                   d, f, spec, i, elem, pc, exc, n, npaths, other>>

NextArc == solve_arc

SpecArc == Init /\ [][NextArc]_vars

\* The specification of separators, curves and arcs: path elements that
\* open with a moveto (one of them written without the space) and go on
\* with up to MaxInstrT texts, among them texts without separators, the
\* operands of a repeated curve, quadratic curves and arcs.
MaxInstrT == 2

HeadsT == Heads \cup {"M0,0"}

FragsT == {"L 1,1", "L1,1", "1.2-3.4", "l 0.25,-1.5", "2,2", "H 5", "Z", "m 1,1",
           "C 1,1 2,2 3,3", "c 1,1 2,1 3,0", "1,2 3,1 4,3",
           "q 1,1 2,0", "q 3,-1.5 1.5,3", "Q 1,1 2,0", "Q 3,-1.5 1.5,3",
           "A 5,5 0 0 0 6,0", "A 5,5 0 0 1 6,0", "A 5,5 0 1 0 6,0",
           "A 5,5 0 1 1 6,0", "a 5,5 0 0 1 6,0", "A 1,1 0 0 1 6,0",
           "L 1,", "X 1,1"}

ElemsT == {<<h>> \o t : h \in HeadsT, t \in SeqsUpTo(FragsT, MaxInstrT)}

NextT ==
    \/ process_path(ElemsT)
    \/ chop_step
    \/ end_path

SpecT == Init /\ [][NextT]_vars

\* Two calls of process_path on one TiKZMaker, their calls of path_chop
\* interleaved: the call that is running is set aside with its locals and
\* its output, and the other call goes on where it was.  The fields of the
\* maker (lines 37-41) are the same object's for both.
switch ==
    /\ other' = Ctx
    /\ d' = other.d /\ f' = other.f /\ spec' = other.spec /\ i' = other.i
    /\ elem' = other.elem /\ pc' = other.pc /\ exc' = other.exc
    /\ out' = other.out /\ n' = other.n
    /\ UNCHANGED <<lastx, lasty, startx, starty, round, npaths, arcin, arcs>>

\* the path elements of the specification of two interleaved calls: a
\* moveto and up to MaxInstr2 texts
Elems3 == {<<h>> \o t : h \in Heads, t \in SeqsUpTo(Frags, MaxInstr2)}

Next3 ==
    \/ process_path(Elems3)
    \/ chop_step
    \/ end_path
    \/ switch

\* each of the two calls processes one element
Spec3 == Init /\ [][Next3]_vars

(***************************************************************************)
(* Reading a path by hand.  Hand(g) is what the instruction text g says    *)
(* under the path grammar: its command letter ("bare" for a coordinate     *)
(* pair without one, "?" for a text the grammar does not accept) and the   *)
(* operand that fixes its end point, in hundredths (for H, h, V, v the     *)
(* scalar, in x).                                                          *)
(***************************************************************************)
HandOf(cmd, x, y) == [cmd |-> cmd, x |-> x, y |-> y]

Hand(g) ==
    CASE g = "M 0,0" -> HandOf("M", 0, 0)
      [] g = "m 1,2" -> HandOf("m", 100, 200)
      [] g = "L 1,1" -> HandOf("L", 100, 100)
      [] g = "l 0.25,-1.5" -> HandOf("l", 25, -150)
      [] g = "2,2" -> HandOf("bare", 200, 200)
      [] g = "H 5" -> HandOf("H", 500, 0)
      [] g = "h 2" -> HandOf("h", 200, 0)
      [] g = "V 5" -> HandOf("V", 500, 0)
      [] g = "v -1" -> HandOf("v", -100, 0)
      [] g = "Z" -> HandOf("Z", 0, 0)
      [] g = "z" -> HandOf("Z", 0, 0)
      [] g = "M 3,1" -> HandOf("M", 300, 100)
      [] g = "m 1,1" -> HandOf("m", 100, 100)
      [] g = "C 1,1 2,2 3,3" -> HandOf("C", 300, 300)
      [] g = "c 1,1 2,1 3,0" -> HandOf("c", 300, 0)
      [] g = "Q 1,1 2,0" -> HandOf("Q", 200, 0)
      [] g = "q 1,1 2,0" -> HandOf("q", 200, 0)
      [] g = "A 1,1 0 0 1 2,0" -> HandOf("A", 200, 0)
      [] OTHER -> HandOf("?", 0, 0)

\* the pen by hand: the current point, the subpath start, the last command,
\* and whether every instruction so far was one the grammar accepts
HandPen(x, y, sx, sy, cmd, ok) ==
    [x |-> x, y |-> y, sx |-> sx, sy |-> sy, cmd |-> cmd, ok |-> ok]

\* the command a text stands for after the command last: a bare pair after
\* a moveto or a lineto draws a line in that command's mode
HandCmd(last, h) ==
    IF h.cmd # "bare" THEN h.cmd
    ELSE IF last \in {"M", "L"} THEN "L"
    ELSE IF last \in {"m", "l"} THEN "l"
    ELSE "?"

HandApply(s, h, c) ==
    CASE c = "?" -> [s EXCEPT !.ok = FALSE]
      [] c = "Z" -> HandPen(s.sx, s.sy, s.sx, s.sy, c, s.ok)
      [] c = "M" \/ (c = "m" /\ s.cmd = "none") -> HandPen(h.x, h.y, h.x, h.y, c, s.ok)
      [] c = "m" /\ s.cmd # "none" ->
           HandPen(s.x + h.x, s.y + h.y, s.x + h.x, s.y + h.y, c, s.ok)
      [] c = "H" -> HandPen(h.x, s.y, s.sx, s.sy, c, s.ok)
      [] c = "h" -> HandPen(s.x + h.x, s.y, s.sx, s.sy, c, s.ok)
      [] c = "V" -> HandPen(s.x, h.x, s.sx, s.sy, c, s.ok)
      [] c = "v" -> HandPen(s.x, s.y + h.x, s.sx, s.sy, c, s.ok)
      [] c \in {"L", "C", "Q", "A"} -> HandPen(h.x, h.y, s.sx, s.sy, c, s.ok)
      [] c \in {"l", "c", "q", "a"} -> HandPen(s.x + h.x, s.y + h.y, s.sx, s.sy, c, s.ok)

HandStep(s, h) == HandApply(s, h, HandCmd(s.cmd, h))

RECURSIVE Replay(_, _, _)
\* the pen after the instructions k.. of e, replayed by hand from the pen s
Replay(e, k, s) ==
    IF k > Len(e) THEN s ELSE Replay(e, k + 1, HandStep(s, Hand(e[k])))

HandResult(e) == Replay(e, 1, HandPen(0, 0, 0, 0, "none", TRUE))

\* the text dd opens with the instruction text g
OpensWith(dd, g) ==
    /\ dd # None
    /\ Len(dd) >= Len(Chars(g))
    /\ SubSeq(dd, 1, Len(Chars(g))) = Chars(g)
    /\ Len(dd) = Len(Chars(g)) \/ dd[Len(Chars(g)) + 1] = " "

\* the text dd opens with a number, no command letter before it
BareAt(dd) == dd # None /\ Len(dd) > 0 /\ (IsDigit(dd[1]) \/ dd[1] = "-")

\* the arguments of the next call, its text led by the command letter c
Explicit(c) == [Args EXCEPT !.d = <<c, " ">> \o d]

Header == Line("%% path spec", "", <<>>)

Semi == Line(";", "", <<>>)

Cycle == Line("-- cycle", "", <<>>)

(***************************************************************************)
(* C2.  Closing a subpath.                                                 *)
(***************************************************************************)
\* C2: whenever path_chop is called on a text that opens with Z or z, it
\* leaves the current point equal to the subpath start, leaves the start as
\* it was, and emits exactly one line, "-- cycle"; this holds whatever came
\* before, a Z right after the opening moveto included.
C2_ClosePath ==
    [][(pc = "loop" /\ d # None /\ Len(d) > 0 /\ d[1] \in {"Z", "z"})
       => /\ lastx' = startx' /\ lasty' = starty'
          /\ startx' = startx /\ starty' = starty
          /\ out' = Append(out, Cycle)
          /\ exc' = "none"]_vars

\* a Z has just been processed after a line was drawn away from a subpath
\* start that is not the origin
C2_Witness ==
    /\ pc = "loop" /\ d = None /\ exc = "none"
    /\ out[Len(out)] = Cycle
    /\ \E k \in 1..Len(out) : out[k].op = "--"
    /\ lastx = startx /\ lasty = starty
    /\ <<startx, starty>> # <<0, 0>>

(***************************************************************************)
(* C4, C5.  Bare coordinate pairs.                                         *)
(***************************************************************************)
\* C4: when the text opens with a bare number and the last command is not
\* a moveto, the call does exactly what it would do with the last command's
\* letter written in front, and on return the last command and its mode
\* (relative for a lowercase letter) are the same, so that the next bare
\* pair repeats it again; "M 0,0 L 1,1 2,2 Z" gives a move to (0,0), lines
\* to (1,1) and (2,2), and a close.
C4_RepeatsLastCommand ==
    [][/\ (pc = "loop" /\ BareAt(d) /\ spec \notin {NoSpec, "M", "m"})
          => /\ Assign(path_chop(Explicit(spec)))
             /\ exc' = "none" => (spec' = spec /\ i' = (spec # Upper(spec)))
       /\ (elem = <<"M 0,0", "L 1,1", "2,2", "Z">> /\ pc' = "done")
          => out' = <<Header, Line("\\draw", "", << <<0, 0>> >>),
                      Line("--", "", << <<10, 10>> >>),
                      Line("--", "", << <<20, 20>> >>), Cycle, Semi>>]_vars

\* two bare pairs in a row after a relative lineto, each drawn as a relative
\* line: from (0.25,-1.5) by (2,2) twice to (4.25,2.5)
C4_Witness ==
    /\ pc = "done"
    /\ elem = <<"M 0,0", "l 0.25,-1.5", "2,2", "2,2">>
    /\ lastx = 425 /\ lasty = 250
    /\ out[4] = Line("--", "++", << <<20, 20>> >>)
    /\ out[5] = Line("--", "++", << <<20, 20>> >>)

\* C5: when the text opens with a bare number and the last command is M
\* (m), the call does exactly what it would do with L (l) written in front:
\* on return the command is L (l), the subpath start is as it was, and no
\* "\draw" line was emitted; "m 1,2 2,2" is a move to (1,2) and a relative
\* line by (2,2).
C5_AfterMoveTo ==
    [][/\ (pc = "loop" /\ BareAt(d) /\ spec \in {"M", "m"})
          => /\ Assign(path_chop(Explicit(IF spec = "M" THEN "L" ELSE "l")))
             /\ startx' = startx /\ starty' = starty
             /\ \A k \in Len(out) + 1 .. Len(out') : out'[k].op = "--"
             /\ exc' = "none" => spec' = (IF spec = "M" THEN "L" ELSE "l")
       /\ (elem = <<"m 1,2", "2,2">> /\ pc' = "done")
          => out' = <<Header, Line("\\draw", "", << <<10, 20>> >>),
                      Line("--", "++", << <<20, 20>> >>), Semi>>]_vars

\* a bare pair after the opening relative moveto has been drawn as a
\* relative line, the subpath start still where the moveto put it
C5_Witness ==
    /\ pc = "done"
    /\ elem = <<"m 1,2", "2,2">>
    /\ lastx = 300 /\ lasty = 400 /\ startx = 100 /\ starty = 200
    /\ out[3] = Line("--", "++", << <<20, 20>> >>)

(***************************************************************************)
(* C6.  Horizontal and vertical lines.                                     *)
(***************************************************************************)
\* what the instruction g (one of H, h, V, v with the operand Hand(g).x)
\* must do by C6
HVEffect(g, c, x) ==
    /\ exc' = "none"
    /\ lastx' = (CASE c = "H" -> x [] c = "h" -> lastx + x [] OTHER -> lastx)
    /\ lasty' = (CASE c = "V" -> x [] c = "v" -> lasty + x [] OTHER -> lasty)
    /\ out' = Append(out,
                IF c \in {"H", "V"}
                THEN Line("--", "", <<pt2str(lastx', lasty', round)>>)
                ELSE Line("--", "++", <<pt2str(lastx' - lastx, lasty' - lasty, round)>>))

\* C6: in a path that opens with a moveto, H x sets the current x to x and
\* h x adds x to it, leaving y alone; V and v do the same to y, leaving x
\* alone; each emits one line: to the new point for H and V, by the offset
\* from the old point to the new for h and v; "M 0,0 H 5 V 5 Z" gives a move
\* to (0,0), lines to (5,0) and (5,5), and a close.
C6_HorizontalVertical ==
    [][/\ \A g \in {"H 5", "h 2", "V 5", "v -1"} :
            (pc = "loop" /\ OpensWith(d, g)) => HVEffect(g, Hand(g).cmd, Hand(g).x)
       /\ (elem = <<"M 0,0", "H 5", "V 5", "Z">> /\ pc' = "done")
          => out' = <<Header, Line("\\draw", "", << <<0, 0>> >>),
                      Line("--", "", << <<50, 0>> >>),
                      Line("--", "", << <<50, 50>> >>), Cycle, Semi>>]_vars

\* H after a point with y # 0, then v: the line of H keeps y = 2, v keeps
\* x = 5
C6_Witness ==
    /\ pc = "done"
    /\ elem = <<"m 1,2", "H 5", "v -1">>
    /\ lastx = 500 /\ lasty = 100
    /\ out[3] = Line("--", "", << <<50, 20>> >>)
    /\ out[4] = Line("--", "++", << <<0, -10>> >>)

(***************************************************************************)
(* C7.  MoveTo and the subpath start.                                      *)
(***************************************************************************)
\* what the moveto g, with the operand (x, y), must do by C7
MEffect(g, c, x, y) ==
    /\ exc' = "none"
    /\ lastx' = (IF c = "M" \/ f THEN x ELSE lastx + x)
    /\ lasty' = (IF c = "M" \/ f THEN y ELSE lasty + y)
    /\ startx' = lastx' /\ starty' = lasty'
    /\ Len(out') = Len(out) + (IF f THEN 1 ELSE 2)
    /\ out'[Len(out')].op = "\\draw"
    /\ ~f => out'[Len(out) + 1] = Semi

\* C7: after M or m the subpath start and the current point are both the
\* point moved to: the operand for M and for an m that is the first
\* instruction, the current point plus the operand for a later m; a moveto
\* that is not the first instruction emits ";" and then the new "\draw";
\* and no step other than a moveto changes the subpath start.
C7_MoveTo ==
    [][/\ \A g \in {"M 0,0", "m 1,2", "M 3,1", "m 1,1"} :
            (pc = "loop" /\ OpensWith(d, g)) => MEffect(g, Hand(g).cmd, Hand(g).x, Hand(g).y)
       /\ ~(pc = "loop" /\ d # None /\ Len(d) > 0 /\ d[1] \in {"M", "m"})
          => (startx' = startx /\ starty' = starty)]_vars

\* a relative moveto after a line to (1,1): the new start is (2,2), and the
\* old draw statement was closed before the new one
C7_Witness ==
    /\ pc = "done"
    /\ elem = <<"M 0,0", "L 1,1", "m 1,1">>
    /\ lastx = 200 /\ lasty = 200 /\ startx = 200 /\ starty = 200
    /\ out[4] = Semi
    /\ out[5] = Line("\\draw", "++", << <<10, 10>> >>)

(***************************************************************************)
(* C1, C3.  The current point of a whole path, and what follows a Z.       *)
(***************************************************************************)
\* C1: when process_path has consumed a path that the grammar accepts, the
\* current point is the one found by replaying the path by hand.
C1_ReplayByHand ==
    (pc = "done" /\ HandResult(elem).ok)
    => (lastx = HandResult(elem).x /\ lasty = HandResult(elem).y)

\* C3: a Z that is not the end of the path string does not end the
\* interpretation: the call returns the text after it, which the loop of
\* process_path goes on to interpret.
C3_ContinuesAfterZ ==
    [][(pc = "loop" /\ d # None /\ Len(d) > 2 /\ d[1] \in {"Z", "z"} /\ d[2] = " ")
       => d' = SubSeq(d, 3, Len(d))]_vars

(***************************************************************************)
(* C8, C9.  Truncated and unknown instructions.                            *)
(***************************************************************************)
\* instruction texts that lack operands
Truncated == {"L 1,", "L", "C 1,1 2,2"}

\* the letters of the path grammar
CommandLetters ==
    {"M", "m", "L", "l", "H", "h", "V", "v", "C", "c", "Q", "q", "A", "a", "Z", "z"}

\* C8: when the path string ends in an instruction that lacks operands, the
\* call on that instruction raises, and nothing is emitted for it: the
\* output is what the earlier instructions emitted.
C8_TruncatedRaises ==
    [][(pc = "loop" /\ \E g \in Truncated : d = Chars(g))
       => (exc' # "none" /\ pc' = "raised" /\ out' = out)]_vars

\* C9: when the text opens with a letter that is no command of the grammar,
\* the call raises, and the output stays what the earlier instructions
\* emitted.
C9_UnknownRaises ==
    [][(pc = "loop" /\ d # None /\ Len(d) > 0
        /\ ~IsDigit(d[1]) /\ d[1] # "-" /\ d[1] \notin CommandLetters)
       => (exc' # "none" /\ pc' = "raised" /\ out' = out)]_vars

(***************************************************************************)
(* C10.  One path element after another.                                   *)
(***************************************************************************)
\* the arguments of the first call of path_chop on the text dd by a
\* TiKZMaker whose fields are as constructed
FreshArgs(dd, rnd) ==
    [d |-> dd, first |-> TRUE, last_spec |-> NoSpec, incremental |-> FALSE,
     lastx |-> 0, lasty |-> 0, startx |-> 0, starty |-> 0, round |-> rnd]

\* the arguments of the call that follows one that returned r
NextArgs(r, rnd) ==
    [d |-> r.rest, first |-> r.first, last_spec |-> r.spec,
     incremental |-> r.incremental,
     lastx |-> r.lastx, lasty |-> r.lasty, startx |-> r.startx, starty |-> r.starty,
     round |-> rnd]

RunResult(a, o) ==
    [lastx |-> a.lastx, lasty |-> a.lasty, startx |-> a.startx, starty |-> a.starty,
     out |-> o]

RECURSIVE Run(_, _)
RunAfter(r, rnd, o) ==
    IF r.exc # "none" THEN RunResult(r, o)
    ELSE Run(NextArgs(r, rnd), o \o r.out)

\* the loop of process_path from the arguments a, the output so far being o
Run(a, o) ==
    IF a.d = None \/ Len(a.d) = 0 THEN RunResult(a, Append(o, Semi))
    ELSE RunAfter(path_chop(a), a.round, o)

\* what process_path makes of the element e when the fields are as
\* constructed
Fresh(e, rnd) == Run(FreshArgs(AttrD(e), rnd), <<Header>>)

\* C10: when process_path has consumed the second of two path elements,
\* the lines emitted for it, the current point and the subpath start are
\* those a newly constructed TiKZMaker gives for the same element.
C10_FreshPerElement ==
    (pc = "done" /\ n = 2)
    => RunResult(Args, out) = Fresh(elem, round)

(***************************************************************************)
(* C11.  Two path elements interpreted at the same time.                   *)
(***************************************************************************)
\* C11: when a call of process_path ends while another call on the same
\* maker is under way or has ended, the calls of path_chop of the two
\* interleaved in any order, the lines emitted for its element and the
\* current point it ends at are those the element gives when it is
\* interpreted with no other call in between (both elements open with a
\* moveto, so that one after the other they give what each gives alone).
C11_InterleavingSafe ==
    [][(pc = "loop" /\ pc' = "done" /\ other' = other)
       => /\ out' = Fresh(elem, round).out
          /\ lastx' = Fresh(elem, round).lastx
          /\ lasty' = Fresh(elem, round).lasty]_vars

(***************************************************************************)
(* C12.  Optional separators.                                              *)
(***************************************************************************)
\* the instruction text g written with its separators
Delimited(g) ==
    CASE g = "M0,0" -> <<"M", " ", "0", ",", "0">>
      [] g = "L1,1" -> <<"L", " ", "1", ",", "1">>
      [] g = "1.2-3.4" -> <<"1", ".", "2", " ", "-", "3", ".", "4">>

\* the text dd with the instruction text g it opens with written with its
\* separators
WithSeparators(dd, g) == Delimited(g) \o SubSeq(dd, Len(Chars(g)) + 1, Len(dd))

\* C12: a text that opens with a command letter directly followed by its
\* first number ("M0,0", "L1,1"), or with a number directly followed by a
\* negative number ("1.2-3.4"), is interpreted exactly as the same text
\* with the separator written: same lines emitted, same current point, same
\* remainder.
C12_OptionalSeparators ==
    [][\A g \in {"M0,0", "L1,1", "1.2-3.4"} :
          (pc = "loop" /\ OpensWith(d, g))
          => Assign(path_chop([Args EXCEPT !.d = WithSeparators(d, g)]))]_vars

(***************************************************************************)
(* C13, C14.  Arcs in a path.                                              *)
(***************************************************************************)
\* arc instructions with radii 5 and the end point operand (6,0)
ArcTexts ==
    {"A 5,5 0 0 0 6,0", "A 5,5 0 0 1 6,0", "A 5,5 0 1 0 6,0", "A 5,5 0 1 1 6,0",
     "a 5,5 0 0 1 6,0"}

\* what an arc instruction g with the end point operand (x, y) must do:
\* return normally with the text after it, emit one line, an arc, and move
\* the current point to the end point
ArcEffect(g, x, y) ==
    /\ exc' = "none" /\ pc' = "loop"
    /\ Len(d) > Len(Chars(g)) => d' = SubSeq(d, Len(Chars(g)) + 2, Len(d))
    /\ lastx' = (IF d[1] = "a" THEN lastx + x ELSE x)
    /\ lasty' = (IF d[1] = "a" THEN lasty + y ELSE y)
    /\ Len(out') = Len(out) + 1
    /\ out'[Len(out')].op = "arc"

\* C13: an A or a instruction with radii that reach across its chord emits
\* one arc, moves the current point to the instruction's end point (the
\* operand for A, the current point plus the operand for a), and the
\* interpretation goes on with the text after it.
C13_ArcTo ==
    [][\A g \in ArcTexts : (pc = "loop" /\ OpensWith(d, g)) => ArcEffect(g, 600, 0)]_vars

\* C14: an arc whose radius 1 is too small for its chord, from (0,0) or
\* (1,2) to (6,0), raises no error: an arc (of the radius scaled up) is
\* emitted and the current point ends at the end point (6,0).
C14_SmallRadius ==
    [][(pc = "loop" /\ OpensWith(d, "A 1,1 0 0 1 6,0"))
       => ArcEffect("A 1,1 0 0 1 6,0", 600, 0)]_vars

(***************************************************************************)
(* C15.  The centres the arc solver returns.                               *)
(***************************************************************************)
RSq(a) == RMul(a, a)

\* the point (px, py) is on the ellipse of radii rx, ry around (cx, cy)
OnEllipse(cx, cy, px, py, rx, ry) ==
    RAdd(RSq(RDiv(RSub(px, cx), rx)), RSq(RDiv(RSub(py, cy), ry))) = Rat(1, 1)

\* the start (0,0) and the end (x1,y1) of the chord are on the ellipse
\* around the centre of arc
EndsOnEllipse(arc, in) ==
    /\ OnEllipse(arc[1], arc[2], Rat(0, 1), Rat(0, 1), in.rx, in.ry)
    /\ OnEllipse(arc[1], arc[2], in.x1, in.y1, in.rx, in.ry)

\* the centres of a and b are mirror images across the line of the chord:
\* the segment between them is orthogonal to the chord, and its midpoint is
\* on the line through (0,0) and (x1,y1)
MirrorAcrossChord(a, b, in) ==
    /\ RAdd(RMul(RSub(b[1], a[1]), in.x1), RMul(RSub(b[2], a[2]), in.y1)) = Rat(0, 1)
    /\ RSub(RMul(RAdd(a[1], b[1]), in.y1), RMul(RAdd(a[2], b[2]), in.x1)) = Rat(0, 1)

\* the centres of a and b are images of each other in the midpoint of the
\* chord
MirrorInMidpoint(a, b, in) ==
    /\ RAdd(a[1], b[1]) = in.x1
    /\ RAdd(a[2], b[2]) = in.y1

\* C15 as stated: for every call of the solver that returns, both ends of
\* the chord are on the ellipse around each of the two centres, and the two
\* centres are mirror images of each other across the chord.
C15_MirrorAcrossChord ==
    arcs.exc = "none"
    => /\ EndsOnEllipse(arcs.res[1], arcin)
       /\ EndsOnEllipse(arcs.res[2], arcin)
       /\ MirrorAcrossChord(arcs.res[1], arcs.res[2], arcin)

\* C15 as amended: for every call of the solver that returns, both ends of
\* the chord are on the ellipse around each of the two centres; the two
\* centres are images of each other in the midpoint of the chord, and
\* mirror images across the chord when rx = ry or the chord is parallel to
\* an axis.
C15_CentresOnEllipse ==
    arcs.exc = "none"
    => /\ EndsOnEllipse(arcs.res[1], arcin)
       /\ EndsOnEllipse(arcs.res[2], arcin)
       /\ MirrorInMidpoint(arcs.res[1], arcs.res[2], arcin)
       /\ (arcin.rx = arcin.ry \/ arcin.x1.n = 0 \/ arcin.y1.n = 0)
          => MirrorAcrossChord(arcs.res[1], arcs.res[2], arcin)

\* the solver has returned two different centres for an ellipse with
\* rx # ry and a chord that is parallel to no axis
C15_Witness ==
    /\ arcs.exc = "none"
    /\ arcin.rx # arcin.ry /\ arcin.x1.n # 0 /\ arcin.y1.n # 0
    /\ arcs.res[1][1] # arcs.res[2][1] /\ arcs.res[1][2] # arcs.res[2][2]

(***************************************************************************)
(* C16.  The arc drawn for each pair of flags.                             *)
(***************************************************************************)
\* the arcs of radii 5 from the current point to (6,0), one for each
\* (large_arc, sweep)
FlagTexts ==
    {"A 5,5 0 0 0 6,0", "A 5,5 0 0 1 6,0", "A 5,5 0 1 0 6,0", "A 5,5 0 1 1 6,0"}

\* C16: for each of the four (large_arc, sweep) of an arc with a feasible
\* chord, exactly one of the two solutions is drawn: the call emits exactly
\* one arc that is not commented out.
C16_OneArcPerFlags ==
    [][\A g \in FlagTexts :
          (pc = "loop" /\ OpensWith(d, g))
          => Cardinality({k \in Len(out) + 1 .. Len(out') : out'[k].op = "arc"}) = 1]_vars


(***************************************************************************)
(* C17.  The relative quadratic curve.                                     *)
(***************************************************************************)
QuadTexts == {"q 1,1 2,0", "q 3,-1.5 1.5,3"}

\* the offsets 2*P1/3, 2*(P1-P2)/3 and P2 of a q instruction, worked out by
\* hand and written as the output writes them, in tenths: with one decimal,
\* or rounded to whole numbers first when round is set
QuadHand(g, rnd) ==
    CASE g = "q 1,1 2,0" /\ ~rnd -> << <<7, 7>>, <<-7, 7>>, <<20, 0>> >>
      [] g = "q 1,1 2,0" /\ rnd -> << <<10, 10>>, <<-10, 10>>, <<20, 0>> >>
      [] g = "q 3,-1.5 1.5,3" /\ ~rnd -> << <<20, -10>>, <<10, -30>>, <<15, 30>> >>
      [] g = "q 3,-1.5 1.5,3" /\ rnd -> << <<20, -10>>, <<10, -30>>, <<20, 30>> >>

\* the end offset P2 of a q instruction, in hundredths
QuadEnd(g) == IF g = "q 1,1 2,0" THEN <<200, 0>> ELSE <<150, 300>>

\* C17: a q instruction with the control offset P1 and the end offset P2
\* emits one curve in relative coordinates whose first control point is
\* 2*P1/3 from the start, whose second control point is 2*(P1-P2)/3 from the
\* end point, and whose end is P2 from the start; the current point advances
\* by P2.
C17_RelativeQuadratic ==
    [][\A g \in QuadTexts :
          (pc = "loop" /\ OpensWith(d, g))
          => /\ exc' = "none"
             /\ out' = Append(out, Line(".. controls", "++", QuadHand(g, round)))
             /\ lastx' = lastx + QuadEnd(g)[1]
             /\ lasty' = lasty + QuadEnd(g)[2]]_vars

\* a q with offsets that need rounding, after a start point away from the
\* origin
C17_Witness ==
    /\ pc = "done" /\ ~round
    /\ elem = <<"m 1,2", "q 1,1 2,0">>
    /\ out[3] = Line(".. controls", "++", << <<7, 7>>, <<-7, 7>>, <<20, 0>> >>)
    /\ lastx = 300 /\ lasty = 200


(***************************************************************************)
(* C18.  The absolute quadratic curve.                                     *)
(***************************************************************************)
QuadAbsTexts == {"Q 1,1 2,0", "Q 3,-1.5 1.5,3"}

\* the control point and the end point of a Q instruction as the output
\* writes them, in tenths, worked out by hand
QuadAbsControl(g, rnd) ==
    IF g = "Q 1,1 2,0" THEN <<10, 10>>
    ELSE IF rnd THEN <<30, -20>> ELSE <<30, -15>>

QuadAbsEnd(g, rnd) ==
    IF g = "Q 1,1 2,0" THEN <<20, 0>>
    ELSE IF rnd THEN <<20, 30>> ELSE <<15, 30>>

\* the point a printed line draws to: the last point it carries
LineTarget(l) == l.pts[Len(l.pts)]

\* a Q instruction prints one line that is no curve and draws to the point
\* target, and the current point becomes the end point (x, y)
QuadAbsEffect(target, x, y) ==
    /\ exc' = "none"
    /\ Len(out') = Len(out) + 1
    /\ SubSeq(out', 1, Len(out)) = out
    /\ out'[Len(out')].op # ".. controls"
    /\ LineTarget(out'[Len(out')]) = target
    /\ lastx' = x /\ lasty' = y

\* the end point operand of a Q instruction, in hundredths
QuadAbsPoint(g) == IF g = "Q 1,1 2,0" THEN <<200, 0>> ELSE <<150, 300>>

CubicTexts == {"C 1,1 2,2 3,3", "c 1,1 2,1 3,0", "1,2 3,1 4,3"}

\* the operands P1, P2, P3 of a cubic instruction, in units
CubicHand(g) ==
    CASE g = "C 1,1 2,2 3,3" -> << <<1, 1>>, <<2, 2>>, <<3, 3>> >>
      [] g = "c 1,1 2,1 3,0" -> << <<1, 1>>, <<2, 1>>, <<3, 0>> >>
      [] g = "1,2 3,1 4,3" -> << <<1, 2>>, <<3, 1>>, <<4, 3>> >>

\* the point p in tenths, as the output writes it
Tenths(p) == <<10 * p[1], 10 * p[2]>>

\* what a cubic instruction with the operands p, relative or absolute, must
\* do: emit the curve (after a warning line when absolute) and move the
\* current point to the resolved third point
CubicEffect(p, rel) ==
    /\ exc' = "none"
    /\ out' = out \o
         (IF rel
          THEN <<Line(".. controls", "++",
                      <<Tenths(p[1]),
                        Tenths(<<p[2][1] - p[3][1], p[2][2] - p[3][2]>>),
                        Tenths(p[3])>>)>>
          ELSE <<Line("%%%% Warning: check controls", "", <<>>),
                 Line(".. controls", "", <<Tenths(p[1]), Tenths(p[2]), Tenths(p[3])>>)>>)
    /\ lastx' = (IF rel THEN lastx ELSE 0) + 100 * p[3][1]
    /\ lasty' = (IF rel THEN lasty ELSE 0) + 100 * p[3][2]

\* C19: a cubic instruction with operands P1, P2, P3 emits one curve: for C
\* with the control points P1, P2 and the end P3 as written; for c with P1
\* and P3 as offsets from the start and the second control point as the
\* offset P2-P3 from the curve's end; the current point becomes P3 for C and
\* the start plus P3 for c.  A bare triple after a cubic instruction does
\* the same in the mode of that instruction.
C19_Cubic ==
    [][/\ \A g \in {"C 1,1 2,2 3,3", "c 1,1 2,1 3,0"} :
            (pc = "loop" /\ OpensWith(d, g)) => CubicEffect(CubicHand(g), d[1] = "c")
       /\ (pc = "loop" /\ spec \in {"C", "c"} /\ OpensWith(d, "1,2 3,1 4,3"))
          => CubicEffect(CubicHand("1,2 3,1 4,3"), spec = "c")]_vars

\* a c away from the origin, repeated by a bare triple
C19_Witness ==
    /\ pc = "done"
    /\ elem = <<"m 1,2", "c 1,1 2,1 3,0", "1,2 3,1 4,3">>
    /\ out[3] = Line(".. controls", "++", << <<10, 10>>, <<-10, 10>>, <<30, 0>> >>)
    /\ out[4] = Line(".. controls", "++", << <<10, 20>>, <<-10, -20>>, <<40, 30>> >>)
    /\ lastx = 800 /\ lasty = 500


(***************************************************************************)
(* C20.  Termination of the interpretation of a path.                      *)
(***************************************************************************)
\* process_path with its loop scheduled.  The interpreter runs the while
\* loop on: weak fairness of the loop's step, chop_step or end_path, with
\* the condition under which that step can be taken, pc = "loop", written
\* out (in the loop either the text is used up and end_path is next, or
\* path_chop is called)
SpecTFair ==
    /\ Init /\ [][NextT]_vars
    /\ []<>(pc # "loop") \/ []<><<chop_step \/ end_path>>_vars

\* r is a suffix of dd and shorter than dd
ShorterSuffix(r, dd) ==
    /\ Len(r) < Len(dd)
    /\ r = SubSeq(dd, Len(dd) - Len(r) + 1, Len(dd))

\* C20: every call of path_chop that returns gives back None, an empty text
\* or a strictly shorter suffix of the text it was given, and the loop of
\* process_path ends: with the closing line printed or with the exception of
\* a call.
C20_Terminates ==
    /\ [][(pc = "loop" /\ d # None /\ Len(d) > 0 /\ exc' = "none")
          => (d' = None \/ ShorterSuffix(d', d))]_vars
    /\ (pc = "loop") ~> (pc \in {"done", "raised"})

\* a path of three instructions interpreted to its end, the text one
\* instruction shorter at each call
C20_Witness ==
    /\ pc = "done"
    /\ elem = <<"M 0,0", "l 0.25,-1.5", "2,2">>
    /\ d = None
    /\ Len(out) = 5


(***************************************************************************)
(* C21.  The emitted coordinates against the tracked current point.        *)
(***************************************************************************)
\* instructions M, m, L, l, H, h, V, v (and bare pairs) with whole operands,
\* which the output writes exactly
LineTexts == {"M 0,0", "m 1,2", "L 1,1", "2,2", "H 5", "h 2", "V 5", "v -1",
              "M 3,1", "m 1,1"}

OnlyLines(e) == \A k \in 1..Len(e) : e[k] \in LineTexts

\* the position, in tenths, the printed line l denotes when the statement it
\* is part of has come to p: a "++" coordinate is an offset from p, and a
\* "\draw" opens a new statement, which has come to the origin only
PenAfter(l, p) ==
    CASE l.op = "\\draw" ->
           IF l.inc = "++" THEN <<0 + l.pts[1][1], 0 + l.pts[1][2]>> ELSE l.pts[1]
      [] l.op = "--" ->
           IF l.inc = "++" THEN <<p[1] + l.pts[1][1], p[2] + l.pts[1][2]>> ELSE l.pts[1]
      [] OTHER -> p

RECURSIVE PenFrom(_, _, _)
PenFrom(o, k, p) == IF k > Len(o) THEN p ELSE PenFrom(o, k + 1, PenAfter(o[k], p))

\* the position the last coordinate of the output o denotes
Denoted(o) == PenFrom(o, 1, <<0, 0>>)

\* C21: in a path that starts with M or m and uses only M, m, L, l, H, h, V
\* and v, after every instruction the position the last emitted coordinate
\* denotes equals the tracked current point (_lastx, _lasty), a relative m
\* later in the path included.
C21_DenotedIsCurrentPoint ==
    (pc \in {"loop", "done"} /\ exc = "none" /\ OnlyLines(elem) /\ Len(out) >= 2)
    => (10 * Denoted(out)[1] = lastx /\ 10 * Denoted(out)[2] = lasty)


(***************************************************************************)
(* C22.  The output as a sequence of draw statements.                      *)
(***************************************************************************)
\* the printed lines that are comments to TeX
CommentOps == {"%% path spec", "%%%% Warning: check controls",
               "%% << %% This should be a quadratic Bezier --"}

\* reading the line l with a statement open or not (open): wrong is set when
\* a "\draw" comes inside an open statement, or a ";" or a primitive outside
\* one
DrawAfter(l, s) ==
    CASE l.op \in CommentOps -> s
      [] l.op = "\\draw" -> [open |-> TRUE, wrong |-> s.wrong \/ s.open]
      [] l.op = ";" -> [open |-> FALSE, wrong |-> s.wrong \/ ~s.open]
      [] OTHER -> [open |-> s.open, wrong |-> s.wrong \/ ~s.open]

RECURSIVE DrawFrom(_, _, _)
DrawFrom(o, k, s) == IF k > Len(o) THEN s ELSE DrawFrom(o, k + 1, DrawAfter(o[k], s))

DrawRead(o) == DrawFrom(o, 1, [open |-> FALSE, wrong |-> FALSE])

\* the path text of the element e starts with M or m
StartsWithMove(e) == Len(e) > 0 /\ Chars(e[1])[1] \in {"M", "m"}

\* C22: for a path text that starts with M or m and is interpreted without
\* an exception, the output is a sequence of well-formed statements: every
\* "\draw" is closed by exactly one ";" before the next "\draw" or at the
\* end of the path, every other primitive lies between a "\draw" and its
\* ";", and no ";" is printed with no statement open.
C22_WellFormedStatements ==
    (pc \in {"loop", "done"} /\ exc = "none" /\ StartsWithMove(elem))
    => /\ ~DrawRead(out).wrong
       /\ pc = "done" => ~DrawRead(out).open

=============================================================================
